---------------------------- MODULE Spec2Model ----------------------------
(***************************************************************************)
(* Model of the campus scheduling core: the constraint validator           *)
(* (backend/app/constraints.py), the greedy driver                         *)
(* (backend/app/scheduler.py) and the generate endpoint with its           *)
(* background task (backend/app/routers/scheduling.py).                    *)
(*                                                                         *)
(* Python values are modelled by what the code does with them:             *)
(*   - an "HH:MM" string is a pair <<hour, minute>>; strptime turns it     *)
(*     into a time of day (minutes since midnight), strftime turns a time  *)
(*     of day back into a pair;                                            *)
(*   - a member of an enum class is a record [cls, name]; members of       *)
(*     different classes are never equal, whatever their names;            *)
(*   - a dictionary key is a record [type, items], so that a str never     *)
(*     equals a tuple.                                                     *)
(***************************************************************************)
EXTENDS Integers, Sequences, FiniteSets, TLC

VARIABLES
    teaching_assignments, \* rows of table teaching_assignments of the term, in load order
    timeslots,            \* rows of table timeslots, in load order
    rooms,                \* active rows of table rooms, in load order
    day_blocks,           \* rows of table teacher_day_blocks
    maintenance_blocks,   \* rows of table room_maintenance_blocks
    today,                \* the date datetime.today() returns
    db_entries,           \* committed rows of table schedule_entries
    run_status,           \* persisted status of the ScheduleRun record
    objective_score,      \* persisted objective_score of the ScheduleRun record
    runs_started,         \* number of generate invocations accepted so far
    request_log,          \* prioritize_senior of every accepted generate request, in order
    pc,                   \* position of the background task
    prioritize_senior,    \* argument handed to the background task
    sorted_assignments,   \* generate_schedule: the sorted list being iterated
    idx,                  \* generate_schedule: index of the next unit of the loop
    assignments,          \* CampusScheduler.assignments
    violations,           \* CampusScheduler.violations
    failed_assignments,   \* generate_schedule: failed_assignments
    validated,            \* log of the validator calls of the current run
    schedule_run,         \* status attribute of the task's ScheduleRun object
    result,               \* value returned by generate_schedule
    cand,                 \* validator specification: the candidate
    outcome               \* validator specification: the validator's return value

master == <<teaching_assignments, timeslots, rooms, day_blocks, maintenance_blocks, today>>
store == <<db_entries, run_status, objective_score>>
sched == <<sorted_assignments, idx, assignments, violations, failed_assignments, validated,
           schedule_run, result>>
vars == <<master, store, runs_started, request_log, pc, prioritize_senior, sched, cand, outcome>>

-----------------------------------------------------------------------------
(* Bounds of the model *)

MaxUnits == 2
MaxSlots == 2
MaxRooms == 2
MaxWeekUnits == 6
MaxRuns == 2
MaxDay == 2
MaxOrderUnits == 3
MaxScoreUnits == 68

-----------------------------------------------------------------------------
(* Enumerations of models.py *)

RoomType(n) == [cls |-> "RoomType", name |-> n]
CourseType(n) == [cls |-> "CourseType", name |-> n]
RoomTypeNames == {"STANDARD", "LAB", "SHOP", "SCIENCE_LAB"}
CourseTypeNames == {"STANDARD", "LAB", "SHOP", "SCIENCE_LAB", "CWATS"}
TeacherStatus == {"CONTRACT_OF_SERVICE", "PERMANENT"}
Workload == {"FULL_TIME", "PART_TIME", "VISITING"}
DayOfWeek == {"MON", "TUE", "WED", "THU", "FRI", "SAT"}
ScheduleRunStatus == {"DRAFT", "RUNNING", "SUCCESS", "FAILED"}

-----------------------------------------------------------------------------
(* Time arithmetic *)

\* datetime.strptime(s, "%H:%M").time(): times of day order as minutes since midnight
Strptime(s) == s[1] * 60 + s[2]

\* time.strftime("%H:%M")
Strftime(t) == <<t \div 60, t % 60>>

\* TimePeriod.__init__
TimePeriod(start_time, end_time) ==
    [start_time |-> Strptime(start_time), end_time |-> Strptime(end_time)]

\* TimePeriod.overlaps_with
overlaps_with(self, other) ==
    ~(self.end_time <= other.start_time \/ self.start_time >= other.end_time)

-----------------------------------------------------------------------------
(* ConstraintEngine: class constants *)

EARLY_START_THRESHOLD == <<10, 30>>
EARLY_START_LUNCH == <<11, 30>>
LATE_START_LUNCH == <<14, 30>>
LUNCH_DURATION_MINUTES == 90
MAX_TEACHING_DAYS == 5

PyTuple(items) == [type |-> "tuple", items |-> items]
PyStr(s) == [type |-> "str", items |-> <<s>>]

\* TIME_LIMITS: the keys of the dictionary are tuples
TIME_LIMITS_KEYS ==
    { PyTuple(<<"CONTRACT_OF_SERVICE", "FULL_TIME">>),
      PyTuple(<<"PERMANENT", "FULL_TIME">>),
      PyTuple(<<"PART_TIME">>),
      PyTuple(<<"VISITING">>) }

TIME_LIMITS(key) ==
    CASE key = PyTuple(<<"CONTRACT_OF_SERVICE", "FULL_TIME">>) -> <<17, 30>>
      [] key = PyTuple(<<"PERMANENT", "FULL_TIME">>) -> <<15, 30>>
      [] key = PyTuple(<<"PART_TIME">>) -> <<20, 0>>
      [] key = PyTuple(<<"VISITING">>) -> <<20, 0>>

SENIOR_ROOMS == {"A103", "A104", "A203"}

\* ConstraintViolation; rule names the check that built the message
ConstraintViolation(constraint_type, severity, rule) ==
    [constraint_type |-> constraint_type, severity |-> severity, rule |-> rule]

-----------------------------------------------------------------------------
(* ConstraintEngine: hard constraints.  existing_schedule is the dictionary *)
(* {day: [(teacher_id, start_time, end_time), ...]}: a function from the    *)
(* days that have an entry to the sequence of the day's entries.            *)

RECURSIVE SeqConcat(_)
\* list.extend over a sequence of lists
SeqConcat(ss) == IF ss = <<>> THEN <<>> ELSE Head(ss) \o SeqConcat(Tail(ss))

\* ConstraintEngine._check_room_type_matching
check_room_type_matching(course, room) ==
    IF course.course_type = CourseType("STANDARD") THEN <<>>
    ELSE IF room.room_type # course.course_type
         THEN << ConstraintViolation("HARD", "CRITICAL", "H1") >>
         ELSE <<>>

\* ConstraintEngine._check_time_limit
check_time_limit(teacher, timeslot) ==
    LET end_time == Strptime(timeslot.end_time)
        key0 == PyTuple(<<teacher.status, teacher.workload>>)
        has_key == key0 \in TIME_LIMITS_KEYS \/ PyStr(teacher.workload) \in TIME_LIMITS_KEYS
        key == IF key0 \in TIME_LIMITS_KEYS THEN key0 ELSE PyTuple(<<teacher.workload>>)
    IN  IF ~has_key THEN <<>>
        ELSE IF end_time > Strptime(TIME_LIMITS(key))
             THEN << ConstraintViolation("HARD", "CRITICAL", "H2") >>
             ELSE <<>>

\* _check_teacher_lunch_break with the early lunch taken whatever the start
check_teacher_lunch_break_early_only(timeslot) ==
    LET lunch_start == Strptime(EARLY_START_LUNCH)
        lunch_end == lunch_start + LUNCH_DURATION_MINUTES
        lunch_period == TimePeriod(Strftime(lunch_start), Strftime(lunch_end))
        timeslot_period == TimePeriod(timeslot.start_time, timeslot.end_time)
    IN  IF overlaps_with(timeslot_period, lunch_period)
        THEN << ConstraintViolation("HARD", "CRITICAL", "H3") >>
        ELSE <<>>

\* ConstraintEngine._check_teacher_lunch_break
check_teacher_lunch_break(timeslot) ==
    LET start_time == Strptime(timeslot.start_time)
        early_threshold == Strptime(EARLY_START_THRESHOLD)
        lunch_start == IF start_time < early_threshold
                       THEN Strptime(EARLY_START_LUNCH)
                       ELSE Strptime(LATE_START_LUNCH)
        lunch_end == lunch_start + LUNCH_DURATION_MINUTES
        lunch_period == TimePeriod(Strftime(lunch_start), Strftime(lunch_end))
        timeslot_period == TimePeriod(timeslot.start_time, timeslot.end_time)
    IN  IF overlaps_with(timeslot_period, lunch_period)
        THEN << ConstraintViolation("HARD", "CRITICAL", "H3") >>
        ELSE <<>>

\* _check_max_teaching_days with the candidate's day left out of the count
check_max_teaching_days_without_candidate(teacher, timeslot, existing_schedule) ==
    IF DOMAIN existing_schedule = {} THEN <<>>
    ELSE
    LET teaching_days ==
            { day \in DOMAIN existing_schedule :
                \E i \in 1..Len(existing_schedule[day]) :
                    existing_schedule[day][i][1] = teacher.id }
    IN  IF Cardinality(teaching_days) > MAX_TEACHING_DAYS
        THEN << ConstraintViolation("HARD", "CRITICAL", "H4") >>
        ELSE <<>>

\* ConstraintEngine._check_max_teaching_days
check_max_teaching_days(teacher, timeslot, existing_schedule) ==
    IF DOMAIN existing_schedule = {} THEN <<>>
    ELSE
    LET teaching_days ==
            { day \in DOMAIN existing_schedule :
                \E i \in 1..Len(existing_schedule[day]) :
                    existing_schedule[day][i][1] = teacher.id }
            \cup {timeslot.day_of_week}
        weekdays == teaching_days \ {"SAT"}
    IN  (IF Cardinality(teaching_days) > MAX_TEACHING_DAYS
         THEN << ConstraintViolation("HARD", "CRITICAL", "H4") >>
         ELSE <<>>)
        \o
        (IF timeslot.day_of_week = "SAT"
            /\ Cardinality(teaching_days) = MAX_TEACHING_DAYS
            /\ Cardinality(weekdays) # MAX_TEACHING_DAYS - 1
         THEN << ConstraintViolation("HARD", "HIGH", "H4-weekdays") >>
         ELSE <<>>)

\* _check_saturday_compensation with the filter on the source of the block left out
check_saturday_compensation_any_source(teacher, timeslot, existing_schedule) ==
    IF timeslot.day_of_week # "SAT" THEN <<>>
    ELSE
    LET blocked_days == SelectSeq(day_blocks,
            LAMBDA b : /\ b.teacher_id = teacher.id
                       /\ b.is_blocked = TRUE)
    IN  IF blocked_days = <<>>
        THEN << ConstraintViolation("HARD", "HIGH", "H5") >>
        ELSE <<>>

\* ConstraintEngine._check_saturday_compensation
check_saturday_compensation(teacher, timeslot, existing_schedule) ==
    IF timeslot.day_of_week # "SAT" THEN <<>>
    ELSE
    LET blocked_days == SelectSeq(day_blocks,
            LAMBDA b : /\ b.teacher_id = teacher.id
                       /\ b.source = "AUTO_SATURDAY_COMP_OFF"
                       /\ b.is_blocked = TRUE)
    IN  IF blocked_days = <<>>
        THEN << ConstraintViolation("HARD", "HIGH", "H5") >>
        ELSE <<>>

\* _check_first_year_cwats_vacancy applied to the sections of every year
check_first_year_cwats_vacancy_every_section(section, timeslot) ==
    IF timeslot.day_of_week # "SAT" THEN <<>>
    ELSE IF ~timeslot.is_cwats_slot
         THEN << ConstraintViolation("HARD", "CRITICAL", "H6") >>
         ELSE <<>>

\* ConstraintEngine._check_first_year_cwats_vacancy
check_first_year_cwats_vacancy(section, timeslot) ==
    IF ~section.is_first_year THEN <<>>
    ELSE IF timeslot.day_of_week # "SAT" THEN <<>>
    ELSE IF ~timeslot.is_cwats_slot
         THEN << ConstraintViolation("HARD", "CRITICAL", "H6") >>
         ELSE <<>>

\* datetime.combine(date, time): minutes since the epoch of the model
DatetimeCombine(date, t) == date * 1440 + t

\* ConstraintEngine._check_room_maintenance_blocks
check_room_maintenance_blocks(room, timeslot) ==
    LET blocks == SelectSeq(maintenance_blocks, LAMBDA b : b.room_id = room.id)
        timeslot_start == DatetimeCombine(today, Strptime(timeslot.start_time))
        timeslot_end == DatetimeCombine(today, Strptime(timeslot.end_time))
        hit == SelectSeq(blocks, LAMBDA b :
                 ~(timeslot_end <= b.start_datetime \/ timeslot_start >= b.end_datetime))
    IN  [i \in 1..Len(hit) |-> ConstraintViolation("HARD", "CRITICAL", "H7")]

\* _check_no_overlap with the teacher object compared to the stored teacher id
check_no_overlap_teacher_object(teacher, section, room, timeslot, existing_schedule) ==
    IF DOMAIN existing_schedule = {} THEN <<>>
    ELSE IF timeslot.day_of_week \notin DOMAIN existing_schedule THEN <<>>
    ELSE IF SelectSeq(db_entries, LAMBDA e :
                e.room_id = room.id /\ e.timeslot_id = timeslot.id) # <<>>
         THEN << ConstraintViolation("HARD", "CRITICAL", "H8-room") >>
         ELSE <<>>

\* ConstraintEngine._check_no_overlap
check_no_overlap(teacher, section, room, timeslot, existing_schedule) ==
    IF DOMAIN existing_schedule = {} THEN <<>>
    ELSE
    LET day_key == timeslot.day_of_week
        timeslot_period == TimePeriod(timeslot.start_time, timeslot.end_time)
    IN  IF day_key \notin DOMAIN existing_schedule THEN <<>>
        ELSE
        LET clash == SelectSeq(existing_schedule[day_key], LAMBDA e :
                        /\ overlaps_with(timeslot_period, TimePeriod(e[2], e[3]))
                        /\ e[1] = teacher.id)
            room_entries == SelectSeq(db_entries, LAMBDA e :
                        e.room_id = room.id /\ e.timeslot_id = timeslot.id)
        IN  [i \in 1..Len(clash) |-> ConstraintViolation("HARD", "CRITICAL", "H8-teacher")]
            \o
            (IF room_entries # <<>>
             THEN << ConstraintViolation("HARD", "CRITICAL", "H8-room") >>
             ELSE <<>>)

RECURSIVE FirstNonEmpty(_)
\* the first list of a sequence of lists that is not empty
FirstNonEmpty(ss) ==
    IF ss = <<>> THEN <<>>
    ELSE IF Head(ss) # <<>> THEN Head(ss) ELSE FirstNonEmpty(Tail(ss))

\* _check_hard_constraints returning at the first check that fails
check_hard_constraints_first_failure(teacher, course, section, timeslot, room, existing_schedule) ==
    FirstNonEmpty(<<
        check_room_type_matching(course, room),
        check_time_limit(teacher, timeslot),
        check_teacher_lunch_break(timeslot),
        check_max_teaching_days(teacher, timeslot, existing_schedule),
        check_saturday_compensation(teacher, timeslot, existing_schedule),
        check_first_year_cwats_vacancy(section, timeslot),
        check_room_maintenance_blocks(room, timeslot),
        check_no_overlap(teacher, section, room, timeslot, existing_schedule) >>)

\* ConstraintEngine._check_hard_constraints
check_hard_constraints(teacher, course, section, timeslot, room, existing_schedule) ==
    SeqConcat(<<
        check_room_type_matching(course, room),
        check_time_limit(teacher, timeslot),
        check_teacher_lunch_break(timeslot),
        check_max_teaching_days(teacher, timeslot, existing_schedule),
        check_saturday_compensation(teacher, timeslot, existing_schedule),
        check_first_year_cwats_vacancy(section, timeslot),
        check_room_maintenance_blocks(room, timeslot),
        check_no_overlap(teacher, section, room, timeslot, existing_schedule) >>)

-----------------------------------------------------------------------------
(* ConstraintEngine: soft constraints *)

\* ConstraintEngine._check_senior_priority
check_senior_priority(teacher, room) ==
    IF ~teacher.is_senior_old THEN <<>>
    ELSE IF room.room_code \notin SENIOR_ROOMS
         THEN << ConstraintViolation("SOFT", "MEDIUM", "S1") >>
         ELSE <<>>

\* ConstraintEngine._check_2hour_course_grouping; units are kept in tenths
check_2hour_course_grouping(course, room) ==
    IF course.units # 20 THEN <<>>
    ELSE IF room.capacity > 100
         THEN << ConstraintViolation("SOFT", "LOW", "S2") >>
         ELSE <<>>

\* ConstraintEngine._check_soft_constraints
check_soft_constraints(teacher, course, section, timeslot, room) ==
    check_senior_priority(teacher, room) \o check_2hour_course_grouping(course, room)

\* validate_timeslot_for_assignment reporting the soft violations of a rejected
\* candidate along with the hard ones
validate_timeslot_for_assignment_reporting_soft(teacher, course, section, timeslot, room, existing_schedule) ==
    LET hard_violations ==
            check_hard_constraints(teacher, course, section, timeslot, room, existing_schedule)
        soft_violations == check_soft_constraints(teacher, course, section, timeslot, room)
    IN  IF hard_violations # <<>>
        THEN [is_valid |-> FALSE, violations |-> hard_violations \o soft_violations]
        ELSE [is_valid |-> TRUE, violations |-> soft_violations]

\* validate_timeslot_for_assignment rejecting a candidate on a soft violation too
validate_timeslot_for_assignment_strict(teacher, course, section, timeslot, room, existing_schedule) ==
    LET all_violations ==
            check_hard_constraints(teacher, course, section, timeslot, room, existing_schedule)
            \o check_soft_constraints(teacher, course, section, timeslot, room)
    IN  [is_valid |-> all_violations = <<>>, violations |-> all_violations]

\* ConstraintEngine.validate_timeslot_for_assignment
validate_timeslot_for_assignment(teacher, course, section, timeslot, room, existing_schedule) ==
    LET hard_violations ==
            check_hard_constraints(teacher, course, section, timeslot, room, existing_schedule)
    IN  IF hard_violations # <<>>
        THEN [is_valid |-> FALSE, violations |-> hard_violations]
        ELSE [is_valid |-> TRUE,
              violations |-> check_soft_constraints(teacher, course, section, timeslot, room)]

-----------------------------------------------------------------------------
(* CampusScheduler *)

\* ScheduleAssignment; unit records which teaching assignment row was placed
ScheduleAssignment(unit, timeslot, room) ==
    [unit |-> unit.id, teacher |-> unit.teacher, course |-> unit.course,
     section |-> unit.section, timeslot |-> timeslot, room |-> room]

\* CampusScheduler._build_existing_schedule_dict
build_existing_schedule_dict(asgs) ==
    LET days == { asgs[i].timeslot.day_of_week : i \in 1..Len(asgs) }
        entry(a) == << a.teacher.id, a.timeslot.start_time, a.timeslot.end_time >>
        of_day(d) == SelectSeq(asgs, LAMBDA a : a.timeslot.day_of_week = d)
    IN  [d \in days |-> [i \in 1..Len(of_day(d)) |-> entry(of_day(d)[i])]]

\* priority_key with the senior key taken from the teacher alone
priority_key_senior_always(assignment, prio_senior) ==
    LET teacher == assignment.teacher
        section == assignment.section
        senior_priority == IF teacher.is_senior_old THEN 0 ELSE 1
        status_priority ==
            IF teacher.status = "PERMANENT"
            THEN (IF teacher.workload = "FULL_TIME" THEN 0 ELSE 2)
            ELSE IF teacher.status = "CONTRACT_OF_SERVICE"
                 THEN (IF teacher.workload = "FULL_TIME" THEN 1 ELSE 3)
                 ELSE 4
        year_priority == IF section.is_first_year THEN 0 ELSE 1
    IN  << senior_priority, status_priority, year_priority >>

\* CampusScheduler._sort_assignments_by_priority: priority_key
priority_key(assignment, prio_senior) ==
    LET teacher == assignment.teacher
        section == assignment.section
        senior_priority == IF prio_senior /\ teacher.is_senior_old THEN 0 ELSE 1
        status_priority ==
            IF teacher.status = "PERMANENT"
            THEN (IF teacher.workload = "FULL_TIME" THEN 0 ELSE 2)
            ELSE IF teacher.status = "CONTRACT_OF_SERVICE"
                 THEN (IF teacher.workload = "FULL_TIME" THEN 1 ELSE 3)
                 ELSE 4
        year_priority == IF section.is_first_year THEN 0 ELSE 1
    IN  << senior_priority, status_priority, year_priority >>

\* comparison of Python tuples of three integers
TupleLess(a, b) ==
    \/ a[1] < b[1]
    \/ a[1] = b[1] /\ a[2] < b[2]
    \/ a[1] = b[1] /\ a[2] = b[2] /\ a[3] < b[3]

RECURSIVE InsertByKey(_, _, _)
\* insertion behind every element whose key is not greater: sorted() is stable
InsertByKey(x, s, prio_senior) ==
    IF s = <<>> THEN << x >>
    ELSE IF TupleLess(priority_key(x, prio_senior), priority_key(Head(s), prio_senior))
         THEN << x >> \o s
         ELSE << Head(s) >> \o InsertByKey(x, Tail(s), prio_senior)

RECURSIVE sort_assignments_by_priority(_, _)
\* CampusScheduler._sort_assignments_by_priority
sort_assignments_by_priority(asgs, prio_senior) ==
    IF asgs = <<>> THEN <<>>
    ELSE InsertByKey(asgs[Len(asgs)],
                     sort_assignments_by_priority(SubSeq(asgs, 1, Len(asgs) - 1), prio_senior),
                     prio_senior)

\* the pairs of the first timeslot only: the loops give up after one timeslot
Candidates_first_timeslot(tss, rms) ==
    [k \in 1..Len(rms) |-> [timeslot |-> tss[1], room |-> rms[k]]]

\* the (timeslot, room) pairs in the order of the nested loops of _assign_teaching_unit
Candidates(tss, rms) ==
    [k \in 1..(Len(tss) * Len(rms)) |->
        [timeslot |-> tss[((k - 1) \div Len(rms)) + 1],
         room |-> rms[((k - 1) % Len(rms)) + 1]]]

\* datetime.strptime(s, "%H:%M") accepts hours 0..23 and minutes 0..59 and raises
\* ValueError on anything else
strptime_ok(t) == t[1] \in 0..23 /\ t[2] \in 0..59

\* a validator call raises when _check_time_limit or _check_teacher_lunch_break
\* parses a start or end time that is not a well-formed HH:MM
validator_raises(timeslot) ==
    ~strptime_ok(timeslot.start_time) \/ ~strptime_ok(timeslot.end_time)

\* _assign_teaching_unit with a validator that enters every candidate it is
\* asked about into the schedule
assign_teaching_unit_recording_candidates(unit, tss, rms, asgs) ==
    LET existing_schedule == build_existing_schedule_dict(asgs)
        cands == Candidates(tss, rms)
        raising == { k \in 1..Len(cands) : validator_raises(cands[k].timeslot) }
        first_raise == IF raising = {} THEN 0 ELSE CHOOSE k \in raising : \A j \in raising : k <= j
        reached == { k \in 1..Len(cands) : first_raise = 0 \/ k < first_raise }
        call == [k \in reached |->
                    validate_timeslot_for_assignment(
                        unit.teacher, unit.course, unit.section,
                        cands[k].timeslot, cands[k].room, existing_schedule)]
        valid == { k \in reached : call[k].is_valid }
        first == IF valid = {} THEN 0 ELSE CHOOSE k \in valid : \A j \in valid : k <= j
        last == IF first # 0 THEN first
                ELSE IF first_raise # 0 THEN first_raise - 1 ELSE Len(cands)
    IN  [success |-> first # 0,
         raised |-> first = 0 /\ first_raise # 0,
         calls |-> [k \in 1..last |->
                      [unit |-> unit.id, timeslot |-> cands[k].timeslot, room |-> cands[k].room,
                       is_valid |-> call[k].is_valid, violations |-> call[k].violations]],
         assignment |-> [k \in 1..last |->
                            ScheduleAssignment(unit, cands[k].timeslot, cands[k].room)]]

\* CampusScheduler._assign_teaching_unit: the validator calls made for one unit, up to
\* and including the first valid one, or up to the call that raises
assign_teaching_unit(unit, tss, rms, asgs) ==
    LET existing_schedule == build_existing_schedule_dict(asgs)
        cands == Candidates(tss, rms)
        raising == { k \in 1..Len(cands) : validator_raises(cands[k].timeslot) }
        first_raise == IF raising = {} THEN 0 ELSE CHOOSE k \in raising : \A j \in raising : k <= j
        reached == { k \in 1..Len(cands) : first_raise = 0 \/ k < first_raise }
        call == [k \in reached |->
                    validate_timeslot_for_assignment(
                        unit.teacher, unit.course, unit.section,
                        cands[k].timeslot, cands[k].room, existing_schedule)]
        valid == { k \in reached : call[k].is_valid }
        first == IF valid = {} THEN 0 ELSE CHOOSE k \in valid : \A j \in valid : k <= j
        last == IF first # 0 THEN first
                ELSE IF first_raise # 0 THEN first_raise - 1 ELSE Len(cands)
    IN  [success |-> first # 0,
         raised |-> first = 0 /\ first_raise # 0,
         calls |-> [k \in 1..last |->
                      [unit |-> unit.id, timeslot |-> cands[k].timeslot, room |-> cands[k].room,
                       is_valid |-> call[k].is_valid, violations |-> call[k].violations]],
         assignment |-> IF first = 0 THEN <<>>
                        ELSE << ScheduleAssignment(unit, cands[first].timeslot, cands[first].room) >>]

\* models.ScheduleEntry built by CampusScheduler._save_schedule_entries
ScheduleEntry(run_id, a) ==
    [schedule_run_id |-> run_id, teacher_id |-> a.teacher.id, section_id |-> a.section.id,
     course_id |-> a.course.id, room_id |-> a.room.id, timeslot_id |-> a.timeslot.id,
     is_locked |-> FALSE]

\* CampusScheduler._save_schedule_entries
save_schedule_entries(run_id, asgs) ==
    [i \in 1..Len(asgs) |-> ScheduleEntry(run_id, asgs[i])]

\* an except branch that saves the assignments made so far before it commits
commit_on_exception_flushing(entries, asgs) == entries \o save_schedule_entries(1, asgs)

\* generate_schedule, except branch: db.commit() with no ScheduleEntry added to the
\* session, the entries being added only by _save_schedule_entries after the loop
commit_on_exception(entries, asgs) == entries

\* the filter of the hard violations with the severity read for the type
HardOfBySeverity(vs) == SelectSeq(vs, LAMBDA v : v.severity = "HARD")

\* [v for v in self.violations if v.constraint_type == "HARD"]
HardOf(vs) == SelectSeq(vs, LAMBDA v : v.constraint_type = "HARD")
\* [v for v in self.violations if v.constraint_type == "SOFT"]
SoftOf(vs) == SelectSeq(vs, LAMBDA v : v.constraint_type = "SOFT")

\* _calculate_objective_score returning the sum as it is
calculate_objective_score_unclamped(vs, asgs) ==
    1000 - Len(SoftOf(vs)) * 10 + Len(asgs) * 5

\* CampusScheduler._calculate_objective_score
calculate_objective_score(vs, asgs) ==
    LET score == 1000 - Len(SoftOf(vs)) * 10 + Len(asgs) * 5
    IN  IF score > 0 THEN score ELSE 0

\* CampusScheduler.get_violations_report
get_violations_report(vs, asgs) ==
    [total_hard |-> Len(HardOf(vs)),
     total_soft |-> Len(SoftOf(vs)),
     total_assignments |-> Len(asgs),
     objective_score |-> calculate_objective_score(vs, asgs)]

-----------------------------------------------------------------------------
(* Master data the runs are checked on *)

Teacher(id, status, workload, is_senior_old) ==
    [id |-> id, status |-> status, workload |-> workload, is_senior_old |-> is_senior_old]
Course(id, course_type, units) ==
    [id |-> id, course_type |-> CourseType(course_type), units |-> units]
Section(id, is_first_year) == [id |-> id, is_first_year |-> is_first_year]
Room(id, room_code, room_type, capacity) ==
    [id |-> id, room_code |-> room_code, room_type |-> RoomType(room_type),
     capacity |-> capacity, active |-> TRUE]
Timeslot(id, day_of_week, start_time, end_time, is_cwats_slot) ==
    [id |-> id, day_of_week |-> day_of_week, start_time |-> start_time,
     end_time |-> end_time, is_cwats_slot |-> is_cwats_slot]
TeachingAssignment(id, teacher, course, section) ==
    [id |-> id, teacher |-> teacher, course |-> course, section |-> section]

Teachers ==
    << Teacher(1, "PERMANENT", "FULL_TIME", FALSE),
       Teacher(2, "CONTRACT_OF_SERVICE", "FULL_TIME", TRUE),
       Teacher(3, "PERMANENT", "PART_TIME", FALSE) >>

Courses == << Course(1, "STANDARD", 30), Course(2, "LAB", 20) >>

Sections == << Section(1, TRUE), Section(2, FALSE) >>

RoomRows ==
    << Room(1, "A101", "STANDARD", 30),
       Room(2, "A103", "STANDARD", 120),
       Room(3, "L201", "LAB", 40) >>

\* ids follow the order of insertion, which is not the order of (day, start)
TimeslotRows ==
    << Timeslot(1, "MON", <<9, 0>>, <<11, 30>>, FALSE),
       Timeslot(2, "MON", <<7, 30>>, <<10, 30>>, FALSE),
       Timeslot(3, "MON", <<10, 30>>, <<13, 30>>, FALSE),
       Timeslot(4, "MON", <<10, 0>>, <<12, 0>>, FALSE),
       Timeslot(5, "TUE", <<13, 0>>, <<16, 0>>, FALSE),
       Timeslot(6, "TUE", <<7, 30>>, <<10, 30>>, FALSE),
       Timeslot(7, "WED", <<16, 0>>, <<17, 30>>, FALSE),
       Timeslot(8, "WED", <<18, 0>>, <<21, 0>>, FALSE),
       Timeslot(9, "WED", <<7, 30>>, <<10, 30>>, FALSE),
       Timeslot(10, "THU", <<7, 30>>, <<10, 30>>, FALSE),
       Timeslot(11, "FRI", <<7, 30>>, <<10, 30>>, FALSE),
       Timeslot(12, "SAT", <<7, 30>>, <<10, 30>>, TRUE),
       Timeslot(13, "SAT", <<16, 0>>, <<17, 30>>, FALSE),
       Timeslot(14, "MON", <<11, 0>>, <<12, 30>>, FALSE) >>

TeachingAssignmentRows ==
    << TeachingAssignment(1, Teachers[1], Courses[1], Sections[1]),
       TeachingAssignment(2, Teachers[2], Courses[1], Sections[1]),
       TeachingAssignment(3, Teachers[1], Courses[1], Sections[2]),
       TeachingAssignment(4, Teachers[3], Courses[1], Sections[2]),
       TeachingAssignment(5, Teachers[2], Courses[1], Sections[2]),
       TeachingAssignment(6, Teachers[1], Courses[2], Sections[2]) >>

TeacherDayBlockRows ==
    << [teacher_id |-> 2, day_of_week |-> "WED", is_blocked |-> TRUE,
        source |-> "AUTO_SATURDAY_COMP_OFF"],
       [teacher_id |-> 1, day_of_week |-> "FRI", is_blocked |-> TRUE,
        source |-> "MANUAL"],
       [teacher_id |-> 3, day_of_week |-> "THU", is_blocked |-> FALSE,
        source |-> "AUTO_SATURDAY_COMP_OFF"] >>

\* one block on the date of the run, one on a later date
RoomMaintenanceBlockRows(date) ==
    << [room_id |-> 2, start_datetime |-> DatetimeCombine(date, Strptime(<<7, 0>>)),
        end_datetime |-> DatetimeCombine(date, Strptime(<<8, 0>>))],
       [room_id |-> 1, start_datetime |-> DatetimeCombine(date + 2, Strptime(<<7, 0>>)),
        end_datetime |-> DatetimeCombine(date + 2, Strptime(<<12, 0>>))] >>

RECURSIVE RowsOf(_, _, _)
\* the rows of a table whose index is in S, in the order of the table
RowsOf(rows, S, i) ==
    IF i > Len(rows) THEN <<>>
    ELSE (IF i \in S THEN << rows[i] >> ELSE <<>>) \o RowsOf(rows, S, i + 1)

\* the tables that hold at most n of the rows
Tables(rows, n) ==
    { RowsOf(rows, S, 1) : S \in { T \in SUBSET (1..Len(rows)) : Cardinality(T) <= n } }

\* the tables that hold at most n of the rows, in any order: a query without
\* ORDER BY returns its rows in an order the store chooses
Orderings(rows, n) ==
    { [i \in DOMAIN f |-> rows[f[i]]] :
        f \in { g \in UNION { [1..k -> 1..Len(rows)] : k \in 0..n } :
                   \A i, j \in DOMAIN g : i # j => g[i] # g[j] } }

\* the timeslots the small terms draw from
SmallSlots == RowsOf(TimeslotRows, {1, 2, 3, 4, 5, 8, 12, 13}, 1)

\* teachers of the employment classes the small terms leave out
RankTeachers ==
    << Teacher(4, "PERMANENT", "VISITING", FALSE),
       Teacher(5, "CONTRACT_OF_SERVICE", "PART_TIME", FALSE),
       Teacher(6, "CONTRACT_OF_SERVICE", "VISITING", TRUE) >>

\* units of every employment class, loaded in an order that is not the priority order
RankUnitRows ==
    << TeachingAssignment(1, RankTeachers[2], Courses[1], Sections[2]),
       TeachingAssignment(2, RankTeachers[1], Courses[1], Sections[2]),
       TeachingAssignment(3, RankTeachers[3], Courses[1], Sections[1]),
       TeachingAssignment(4, Teachers[1], Courses[1], Sections[2]),
       TeachingAssignment(5, Teachers[3], Courses[1], Sections[1]),
       TeachingAssignment(6, Teachers[2], Courses[1], Sections[2]),
       TeachingAssignment(7, Teachers[3], Courses[1], Sections[2]) >>

\* a week of one slot per day
WeekSlots == RowsOf(TimeslotRows, {2, 6, 9, 10, 11, 12}, 1)

\* n units of one teacher
WeekUnits(t, n) ==
    [i \in 1..n |-> TeachingAssignment(i, Teachers[t], Courses[1], Sections[2 - (i % 2)])]

-----------------------------------------------------------------------------
(* The generate endpoint, its background task and the greedy run *)

NoResult == [success |-> FALSE, message |-> "none"]

InitRun ==
    /\ day_blocks = TeacherDayBlockRows
    /\ today = 1
    /\ maintenance_blocks = RoomMaintenanceBlockRows(today)
    /\ db_entries = <<>>
    /\ run_status = "DRAFT"
    /\ objective_score = 0
    /\ runs_started = 0
    /\ request_log = <<>>
    /\ pc = "idle"
    /\ prioritize_senior = TRUE
    /\ sorted_assignments = <<>>
    /\ idx = 0
    /\ assignments = <<>>
    /\ violations = <<>>
    /\ failed_assignments = <<>>
    /\ validated = <<>>
    /\ schedule_run = "DRAFT"
    /\ result = NoResult
    /\ cand = <<>>
    /\ outcome = <<>>

\* small terms over any rooms and timeslots
InitSmall ==
    /\ teaching_assignments \in Tables(TeachingAssignmentRows, MaxUnits)
    /\ timeslots \in Tables(SmallSlots, MaxSlots)
    /\ rooms \in Tables(RoomRows, MaxRooms)
    /\ InitRun

\* one teacher with many units over a week of one slot per day
InitWeek ==
    /\ \E t \in 1..Len(Teachers), n \in 1..MaxWeekUnits :
            teaching_assignments = WeekUnits(t, n)
    /\ timeslots = WeekSlots
    /\ rooms = << RoomRows[1] >>
    /\ InitRun

\* terms over every employment class, one timeslot and one room
InitOrder ==
    /\ teaching_assignments \in Orderings(RankUnitRows, MaxOrderUnits)
    /\ timeslots = << TimeslotRows[2] >>
    /\ rooms = << RoomRows[1] >>
    /\ InitRun

Init == InitSmall \/ InitWeek \/ InitOrder

\* the data of test_scheduler_simple.py
HappyTeachers ==
    << Teacher(8, "PERMANENT", "FULL_TIME", FALSE),
       Teacher(9, "CONTRACT_OF_SERVICE", "FULL_TIME", FALSE) >>

HappyCourses == << Course(1, "STANDARD", 30), Course(3, "STANDARD", 30) >>

HappyRooms == << Room(1, "A101", "STANDARD", 30), Room(4, "A102", "STANDARD", 30) >>

\* three units of two teachers; the third unit is taught by teacher t
HappyUnits(t) ==
    << TeachingAssignment(1, HappyTeachers[1], HappyCourses[1], Sections[1]),
       TeachingAssignment(2, HappyTeachers[2], HappyCourses[2], Sections[2]),
       TeachingAssignment(3, HappyTeachers[t], HappyCourses[3 - t], Sections[3 - t]) >>

\* three units of two teachers, two Standard rooms, three weekday timeslots
InitHappy ==
    /\ \E t \in 1..2 :
          teaching_assignments \in { o \in Orderings(HappyUnits(t), 3) : Len(o) = 3 }
    /\ timeslots = RowsOf(TimeslotRows, {2, 6, 9}, 1)
    /\ rooms = HappyRooms
    /\ InitRun

\* routers/scheduling.py generate_schedule: the endpoint
Generate(prio_senior) ==
    /\ pc = "idle"
    /\ runs_started < MaxRuns
    /\ Len(teaching_assignments) # 0
    /\ run_status' = "RUNNING"
    /\ prioritize_senior' = prio_senior
    /\ runs_started' = runs_started + 1
    /\ request_log' = Append(request_log, prio_senior)
    /\ pc' = "queued"
    /\ UNCHANGED <<master, db_entries, objective_score, sched, cand, outcome>>

\* routers/scheduling.py _run_scheduler_task up to the loop of generate_schedule
StartTask ==
    /\ pc = "queued"
    /\ assignments' = <<>>
    /\ violations' = <<>>
    /\ failed_assignments' = <<>>
    /\ validated' = <<>>
    /\ schedule_run' = run_status
    /\ prioritize_senior' = TRUE   \* the argument is consumed
    /\ IF teaching_assignments = <<>>
       THEN /\ result' = [success |-> FALSE, message |-> "No teaching assignments found"]
            /\ pc' = "idle"
            /\ UNCHANGED <<sorted_assignments, idx>>
       ELSE IF timeslots = <<>>
       THEN /\ result' = [success |-> FALSE, message |-> "No timeslots configured"]
            /\ pc' = "idle"
            /\ UNCHANGED <<sorted_assignments, idx>>
       ELSE IF rooms = <<>>
       THEN /\ result' = [success |-> FALSE, message |-> "No rooms available"]
            /\ pc' = "idle"
            /\ UNCHANGED <<sorted_assignments, idx>>
       ELSE /\ sorted_assignments' =
                    sort_assignments_by_priority(teaching_assignments, prioritize_senior)
            /\ idx' = 1
            /\ result' = NoResult
            /\ pc' = "assigning"
    /\ UNCHANGED <<master, store, runs_started, request_log, cand, outcome>>

\* generate_schedule: one iteration of the loop over sorted_assignments; an
\* exception of the validator ends the run in the except branch
AssignUnit ==
    /\ pc = "assigning"
    /\ idx <= Len(sorted_assignments)
    /\ LET unit == sorted_assignments[idx]
           r == assign_teaching_unit(unit, timeslots, rooms, assignments)
       IN  /\ validated' = validated \o r.calls
           /\ violations' = violations \o
                  SeqConcat([k \in 1..Len(r.calls) |-> r.calls[k].violations])
           /\ assignments' = assignments \o r.assignment
           /\ IF r.raised
              THEN /\ schedule_run' = "FAILED"
                   /\ run_status' = "FAILED"
                   /\ db_entries' = commit_on_exception(db_entries, assignments)
                   /\ result' = [success |-> FALSE, message |-> "Schedule generation failed"]
                   /\ pc' = "idle"
                   /\ UNCHANGED <<failed_assignments, idx>>
              ELSE /\ failed_assignments' =
                          IF r.success THEN failed_assignments
                          ELSE Append(failed_assignments, unit.id)
                   /\ idx' = idx + 1
                   /\ UNCHANGED <<db_entries, run_status, schedule_run, result, pc>>
    /\ UNCHANGED <<master, objective_score, runs_started, request_log, prioritize_senior,
                   sorted_assignments, cand, outcome>>

\* generate_schedule after the loop: save, set the status, return; then the task
\* closes its session, which drops what was not committed
FinishRun ==
    /\ pc = "assigning"
    /\ idx > Len(sorted_assignments)
    /\ db_entries' = db_entries \o save_schedule_entries(1, assignments)
    /\ IF HardOf(violations) # <<>>
       THEN /\ schedule_run' = "FAILED"
            /\ result' = [success |-> FALSE, message |-> "hard constraint violations"]
            /\ UNCHANGED <<run_status, objective_score>>
       ELSE /\ schedule_run' = "SUCCESS"
            /\ run_status' = "SUCCESS"
            /\ objective_score' = calculate_objective_score(violations, assignments)
            /\ result' = [success |-> TRUE, message |-> "Schedule successfully generated"]
    /\ pc' = "idle"
    /\ UNCHANGED <<master, runs_started, request_log, prioritize_senior, sorted_assignments, idx,
                   assignments, violations, failed_assignments, validated, cand, outcome>>

Next ==
    \/ \E prio_senior \in BOOLEAN : Generate(prio_senior)
    \/ StartTask
    \/ AssignUnit
    \/ FinishRun

Spec == Init /\ [][Next]_vars

SpecHappy == InitHappy /\ [][Next]_vars

\* a timeslot row whose end time is not a well-formed HH:MM
MalformedTimeslot == Timeslot(15, "TUE", <<7, 30>>, <<25, 0>>, FALSE)

\* small terms whose timeslot table holds a well-formed and a malformed row
InitMalformed ==
    /\ teaching_assignments \in Tables(TeachingAssignmentRows, MaxUnits)
    /\ timeslots \in { o \in Orderings(<< TimeslotRows[2], MalformedTimeslot >>, 2) : Len(o) = 2 }
    /\ rooms \in Tables(RoomRows, MaxRooms)
    /\ InitRun

SpecMalformed == InitMalformed /\ [][Next]_vars

-----------------------------------------------------------------------------
(* The validator on its own: one call on a candidate drawn from every       *)
(* employment class, course kind, room kind and timeslot                    *)

CandTeachers ==
    { Teacher(1, st, wl, sn) : st \in TeacherStatus, wl \in Workload, sn \in BOOLEAN }
CandCourses == { Course(1, k, u) : k \in CourseTypeNames, u \in {20, 30} }
CandRooms ==
    { Room(1, "A101", k, 30) : k \in RoomTypeNames } \cup
    { Room(2, "B201", k, 150) : k \in RoomTypeNames }

\* the partial schedules a candidate is validated against
CandSchedules ==
    { <<>>,
      << ScheduleAssignment(TeachingAssignmentRows[1], TimeslotRows[2], RoomRows[1]) >> }

InitValidator ==
    /\ teaching_assignments = <<>>
    /\ timeslots = TimeslotRows
    /\ rooms = RoomRows
    /\ day_blocks = TeacherDayBlockRows
    /\ today = 1
    /\ maintenance_blocks = RoomMaintenanceBlockRows(today)
    /\ db_entries = << ScheduleEntry(1, ScheduleAssignment(TeachingAssignmentRows[1],
                                                           TimeslotRows[2], RoomRows[1])) >>
    /\ run_status = "DRAFT"
    /\ objective_score = 0
    /\ runs_started = 0
    /\ request_log = <<>>
    /\ pc = "validator"
    /\ prioritize_senior = TRUE
    /\ sorted_assignments = <<>>
    /\ idx = 0
    /\ assignments \in CandSchedules
    /\ violations = <<>>
    /\ failed_assignments = <<>>
    /\ validated = <<>>
    /\ schedule_run = "DRAFT"
    /\ result = NoResult
    /\ cand \in [teacher : CandTeachers, course : CandCourses, section : { Sections[1], Sections[2] },
                 timeslot : { TimeslotRows[i] : i \in 1..Len(TimeslotRows) }, room : CandRooms]
    /\ outcome = <<>>

\* one call of ConstraintEngine.validate_timeslot_for_assignment
Validate ==
    /\ pc = "validator"
    /\ outcome = <<>>
    /\ outcome' = << validate_timeslot_for_assignment(
                        cand.teacher, cand.course, cand.section, cand.timeslot, cand.room,
                        build_existing_schedule_dict(assignments)) >>
    /\ UNCHANGED <<master, store, runs_started, request_log, pc, prioritize_senior, sched, cand>>

NextValidator == Validate

SpecValidator == InitValidator /\ [][NextValidator]_vars

-----------------------------------------------------------------------------
(* The validator called twice on one candidate: between the calls the date  *)
(* may change and the caller may list the partial schedule in another order *)

\* a partial schedule of two entries of one teacher on one day
TwoEntrySchedule ==
    << ScheduleAssignment(TeachingAssignmentRows[1], TimeslotRows[2], RoomRows[1]),
       ScheduleAssignment(TeachingAssignmentRows[3], TimeslotRows[14], RoomRows[2]) >>

InitRepeat ==
    /\ teaching_assignments = <<>>
    /\ timeslots = TimeslotRows
    /\ rooms = RoomRows
    /\ day_blocks = TeacherDayBlockRows
    /\ today = 1
    /\ maintenance_blocks = RoomMaintenanceBlockRows(today)
    /\ db_entries = << ScheduleEntry(1, TwoEntrySchedule[1]) >>
    /\ run_status = "DRAFT"
    /\ objective_score = 0
    /\ runs_started = 0
    /\ request_log = <<>>
    /\ pc = "validator"
    /\ prioritize_senior = TRUE
    /\ sorted_assignments = <<>>
    /\ idx = 0
    /\ assignments \in { <<>>, TwoEntrySchedule }
    /\ violations = <<>>
    /\ failed_assignments = <<>>
    /\ validated = <<>>
    /\ schedule_run = "DRAFT"
    /\ result = NoResult
    /\ cand \in [teacher : { Teachers[1], Teachers[2] },
                 course : { Courses[1], Courses[2] },
                 section : { Sections[1], Sections[2] },
                 timeslot : { TimeslotRows[i] : i \in 1..Len(TimeslotRows) },
                 room : { RoomRows[i] : i \in 1..Len(RoomRows) }]
    /\ outcome = <<>>

\* a second call of validate_timeslot_for_assignment on the same candidate
ValidateAgain ==
    /\ pc = "validator"
    /\ Len(outcome) = 1
    /\ outcome' = Append(outcome, validate_timeslot_for_assignment(
                        cand.teacher, cand.course, cand.section, cand.timeslot, cand.room,
                        build_existing_schedule_dict(assignments)))
    /\ UNCHANGED <<master, store, runs_started, request_log, pc, prioritize_senior, sched, cand>>

\* datetime.today() moves on to the next date
NextDay ==
    /\ pc = "validator"
    /\ Len(outcome) = 1
    /\ today < MaxDay
    /\ today' = today + 1
    /\ UNCHANGED <<teaching_assignments, timeslots, rooms, day_blocks, maintenance_blocks,
                   store, runs_started, request_log, pc, prioritize_senior, sched, cand, outcome>>

\* the caller lists the same partial schedule in another order
Relist ==
    /\ pc = "validator"
    /\ Len(outcome) = 1
    /\ \E f \in Permutations(1..Len(assignments)) :
          /\ assignments' = [i \in 1..Len(assignments) |-> assignments[f[i]]]
          /\ assignments' # assignments
    /\ UNCHANGED <<master, store, runs_started, request_log, pc, prioritize_senior, sorted_assignments,
                   idx, violations, failed_assignments, validated, schedule_run, result,
                   cand, outcome>>

NextRepeat ==
    \/ Validate
    \/ ValidateAgain
    \/ NextDay
    \/ Relist

SpecRepeat == InitRepeat /\ [][NextRepeat]_vars

-----------------------------------------------------------------------------
(* The report of a scheduler after its run: the score over the counts of    *)
(* assignments and soft violations a run can leave behind (every committed  *)
(* assignment adds at most the two soft violations S1 and S2)               *)

InitScore ==
    /\ teaching_assignments = <<>>
    /\ timeslots = TimeslotRows
    /\ rooms = RoomRows
    /\ day_blocks = TeacherDayBlockRows
    /\ today = 1
    /\ maintenance_blocks = RoomMaintenanceBlockRows(today)
    /\ db_entries = <<>>
    /\ run_status = "DRAFT"
    /\ objective_score = 0
    /\ runs_started = 0
    /\ request_log = <<>>
    /\ pc = "report"
    /\ prioritize_senior = TRUE
    /\ sorted_assignments = <<>>
    /\ idx = 0
    /\ \E a \in 0..MaxScoreUnits :
          /\ assignments = [i \in 1..a |->
                 ScheduleAssignment(TeachingAssignmentRows[2], TimeslotRows[2], RoomRows[1])]
          /\ \E n \in 0..(2 * a), h \in 0..1 :
                violations =
                   [i \in 1..n |-> IF i % 2 = 1 THEN ConstraintViolation("SOFT", "MEDIUM", "S1")
                                               ELSE ConstraintViolation("SOFT", "LOW", "S2")]
                   \o [i \in 1..h |-> ConstraintViolation("HARD", "CRITICAL", "H8-teacher")]
    /\ failed_assignments = <<>>
    /\ validated = <<>>
    /\ schedule_run = "DRAFT"
    /\ result = NoResult
    /\ cand = <<>>
    /\ outcome = <<>>

\* one call of CampusScheduler.get_violations_report
GetViolationsReport ==
    /\ pc = "report"
    /\ outcome = <<>>
    /\ outcome' = << get_violations_report(violations, assignments) >>
    /\ UNCHANGED <<master, store, runs_started, request_log, pc, prioritize_senior, sched, cand>>

NextScore == GetViolationsReport

SpecScore == InitScore /\ [][NextScore]_vars

-----------------------------------------------------------------------------
(* solver.py: run_solver.  One 0/1 variable per (assignment, room, timeslot) *)
(* with the sum over rooms and timeslots equal to 1 for each assignment: an  *)
(* assignment of the variables is a function from the positions of the       *)
(* teaching assignments to pairs <<room position, timeslot position>>.       *)

senior_rooms == {"A103", "A104", "A203"}

\* run.objective_score = None: a value that no objective takes
NoScore == -1000000

\* the candidate values of the variables that satisfy constraint 1
solver_variables(asgs, rms, tss) ==
    [1..Len(asgs) -> (1..Len(rms)) \X (1..Len(tss))]

\* 2. No teacher overlap: per teacher and timeslot at most one variable is set
no_teacher_overlap(asgs, tss, f) ==
    \A teacher_id \in { asgs[a].teacher.id : a \in 1..Len(asgs) }, t \in 1..Len(tss) :
        Cardinality({ a \in 1..Len(asgs) : asgs[a].teacher.id = teacher_id /\ f[a][2] = t }) <= 1

\* 3. No section overlap
no_section_overlap(asgs, tss, f) ==
    \A section_id \in { asgs[a].section.id : a \in 1..Len(asgs) }, t \in 1..Len(tss) :
        Cardinality({ a \in 1..Len(asgs) : asgs[a].section.id = section_id /\ f[a][2] = t }) <= 1

\* 4. No room overlap
no_room_overlap(asgs, rms, tss, f) ==
    \A r \in 1..Len(rms), t \in 1..Len(tss) :
        Cardinality({ a \in 1..Len(asgs) : f[a] = <<r, t>> }) <= 1

\* 5. Room type matching: the rooms outside allowed_rooms are excluded
room_type_matching(asgs, rms, f) ==
    \A a \in 1..Len(asgs) :
        LET course == asgs[a].course
            allowed_rooms == { r \in 1..Len(rms) :
                                 \/ rms[r].room_type = course.course_type
                                 \/ course.course_type = CourseType("STANDARD") }
        IN  f[a][1] \in allowed_rooms

\* 6. End-of-day limits
end_of_day_limits(asgs, tss, f) ==
    \A a \in 1..Len(asgs) :
        LET teacher == asgs[a].teacher
            end_time == Strptime(tss[f[a][2]].end_time)
        IN  IF teacher.status = "PERMANENT" /\ teacher.workload = "FULL_TIME"
            THEN ~(end_time > Strptime(<<15, 30>>))
            ELSE IF teacher.status = "CONTRACT_OF_SERVICE" /\ teacher.workload = "FULL_TIME"
                 THEN ~(end_time > Strptime(<<17, 30>>))
                 ELSE TRUE

\* 7. Senior teacher room preference (hard for seniors)
senior_teacher_rooms(asgs, rms, f) ==
    \A a \in 1..Len(asgs) :
        asgs[a].teacher.is_senior_old => rms[f[a][1]].room_code \in senior_rooms

\* 8. CWATS for first-year sections
cwats_first_year(asgs, tss, f) ==
    \A section_id \in { asgs[a].section.id : a \in 1..Len(asgs) } :
        LET cwats_assignments ==
                { a \in 1..Len(asgs) : /\ asgs[a].section.id = section_id
                                       /\ asgs[a].section.is_first_year
                                       /\ asgs[a].course.course_type = CourseType("CWATS") }
            cwats_slots == { t \in 1..Len(tss) : tss[t].is_cwats_slot /\ tss[t].day_of_week = "SAT" }
        IN  cwats_assignments # {} => \E a \in cwats_assignments : f[a][2] \in cwats_slots

\* 9. has_sat of a teacher, where the constraint that defines it is accepted
has_sat(asgs, tss, f, teacher_id) ==
    \E a \in 1..Len(asgs) : asgs[a].teacher.id = teacher_id /\ tss[f[a][2]].day_of_week = "SAT"

\* model.Add(has_sat == (sum(...) > 0)): the sum runs over the Saturday
\* timeslots.  Without one it is the integer 0 and the constraint is has_sat == 0
has_sat_is_expression(asgs, rms, tss) ==
    /\ asgs # <<>>
    /\ rms # <<>>
    /\ \E t \in 1..Len(tss) : tss[t].day_of_week = "SAT"

\* with a Saturday timeslot the sum is a linear expression and the argument of
\* Add compares a variable with a bounded expression; the solver library, which
\* is not part of the source, may raise, may take the comparison for False (a
\* constraint no solution satisfies) or may link has_sat to the sum
HasSatOutcomes(asgs, rms, tss) ==
    IF has_sat_is_expression(asgs, rms, tss) THEN {"raises", "rejected", "reified"}
    ELSE {"reified"}

\* timeslot i comes before timeslot j of the same day in
\* sorted(timeslots, key=lambda t: (t.day_of_week.value, t.start_time))
sorted_slots_before(tss, i, j) ==
    /\ tss[i].day_of_week = tss[j].day_of_week
    /\ \/ Strptime(tss[i].start_time) < Strptime(tss[j].start_time)
       \/ Strptime(tss[i].start_time) = Strptime(tss[j].start_time) /\ i < j

\* the gap penalty of two neighbours of sorted_slots on one day with gap_hours > 0
\* multiplies two sums of variables, which is no linear expression: the library
\* raises.  timedelta.seconds is taken modulo one day, so the gap is 0 only when
\* the second slot starts where the first ends.
gap_penalty_raises(asgs, rms, tss) ==
    /\ asgs # <<>>
    /\ rms # <<>>
    /\ \E i, j \in 1..Len(tss) :
         /\ sorted_slots_before(tss, i, j)
         /\ ~\E k \in 1..Len(tss) : sorted_slots_before(tss, i, k) /\ sorted_slots_before(tss, k, j)
         /\ (Strptime(tss[j].start_time) - Strptime(tss[i].end_time)) % 1440 > 0

\* model.Minimize(sum(objective_terms)): 100 per teacher with a Saturday class,
\* -5 per 2-unit course in a room of capacity below 50; units are kept in tenths
solver_objective(asgs, rms, tss, f) ==
    100 * Cardinality({ teacher_id \in { asgs[a].teacher.id : a \in 1..Len(asgs) } :
                            has_sat(asgs, tss, f, teacher_id) })
    - 5 * Cardinality({ a \in 1..Len(asgs) :
                            asgs[a].course.units = 20 /\ rms[f[a][1]].capacity < 50 })

\* the hard constraints 2 to 8 of the model
solver_constraints(asgs, rms, tss, f) ==
    /\ no_teacher_overlap(asgs, tss, f)
    /\ no_section_overlap(asgs, tss, f)
    /\ no_room_overlap(asgs, rms, tss, f)
    /\ room_type_matching(asgs, rms, f)
    /\ end_of_day_limits(asgs, tss, f)
    /\ senior_teacher_rooms(asgs, rms, f)
    /\ cwats_first_year(asgs, tss, f)

RECURSIVE solver_search(_, _, _, _)
\* the search of the solver: the values of the variables of the first k
\* assignments that break none of the constraints 2 to 7, each of which stays
\* broken once it is broken by the first assignments
solver_search(asgs, rms, tss, k) ==
    IF k = 0 THEN { <<>> }
    ELSE { f \in { Append(g, pr) : g \in solver_search(asgs, rms, tss, k - 1),
                                   pr \in (1..Len(rms)) \X (1..Len(tss)) } :
             LET first == SubSeq(asgs, 1, k)
             IN  /\ no_teacher_overlap(first, tss, f)
                 /\ no_section_overlap(first, tss, f)
                 /\ no_room_overlap(first, rms, tss, f)
                 /\ room_type_matching(first, rms, f)
                 /\ end_of_day_limits(first, tss, f)
                 /\ senior_teacher_rooms(first, rms, f) }

\* the solutions of the model; lib is the library's treatment of constraint 9
solver_solutions(asgs, rms, tss, lib) ==
    IF has_sat_is_expression(asgs, rms, tss) /\ lib = "rejected" THEN {}
    ELSE { f \in solver_search(asgs, rms, tss, Len(asgs)) : solver_constraints(asgs, rms, tss, f) }

\* the solutions solver.Solve may return: those of the least objective value
optimal_solutions(asgs, rms, tss, lib) ==
    LET solutions == solver_solutions(asgs, rms, tss, lib)
        value == [f \in solutions |-> solver_objective(asgs, rms, tss, f)]
    IN  { f \in solutions : \A g \in solutions : value[f] <= value[g] }

\* the entries of a solution; the row of an assignment is read as
\* assignments[assign_id-1], by its id and not by its position
solver_entries(run_id, asgs, rms, tss, f) ==
    [a \in 1..Len(asgs) |->
        ScheduleEntry(run_id, ScheduleAssignment(asgs[asgs[a].id], tss[f[a][2]], rms[f[a][1]]))]

InitSolverData ==
    /\ day_blocks = TeacherDayBlockRows
    /\ today = 1
    /\ maintenance_blocks = RoomMaintenanceBlockRows(today)
    /\ db_entries = <<>>
    /\ run_status = "DRAFT"
    /\ objective_score = 0
    /\ runs_started = 0
    /\ request_log = <<>>
    /\ pc = "solver"
    /\ prioritize_senior = TRUE
    /\ sorted_assignments = <<>>
    /\ idx = 0
    /\ assignments = <<>>
    /\ violations = <<>>
    /\ failed_assignments = <<>>
    /\ validated = <<>>
    /\ schedule_run = "DRAFT"
    /\ result = NoResult
    /\ cand = <<>>
    /\ outcome = <<>>

\* the timeslots the small solver terms draw from
SolverSlots == RowsOf(TimeslotRows, {1, 2, 3, 6, 8, 9}, 1)

\* small terms: the first units of the table, whose ids are their positions
InitSolverSmall ==
    /\ \E n \in 0..(MaxUnits + 1) : teaching_assignments = SubSeq(TeachingAssignmentRows, 1, n)
    /\ timeslots \in Tables(SolverSlots, MaxSlots)
    /\ rooms \in Tables(RoomRows, MaxRooms)
    /\ InitSolverData

\* one teacher with many units over the five weekdays or the six days
InitSolverWeek ==
    /\ \E t \in 1..Len(Teachers), n \in 1..MaxWeekUnits :
            teaching_assignments = WeekUnits(t, n)
    /\ timeslots \in { WeekSlots, SubSeq(WeekSlots, 1, 5) }
    /\ rooms \in { << RoomRows[1] >>, << RoomRows[2] >> }
    /\ InitSolverData

\* terms whose units are loaded in any order, or of which only some rows belong
\* to the term: the id of a unit need not be its position in the loaded list
InitSolverIds ==
    /\ teaching_assignments \in
            { o \in Orderings(SubSeq(TeachingAssignmentRows, 1, MaxUnits), MaxUnits) :
                  \E a \in 1..Len(o) : o[a].id # a }
    /\ timeslots \in Tables(SolverSlots, MaxSlots)
    /\ rooms \in Tables(RoomRows, MaxRooms)
    /\ InitSolverData

InitSolver == InitSolverSmall \/ InitSolverWeek \/ InitSolverIds

\* run_solver
RunSolver ==
    /\ pc = "solver"
    /\ \E lib \in HasSatOutcomes(teaching_assignments, rooms, timeslots) :
         LET optimal == optimal_solutions(teaching_assignments, rooms, timeslots, lib)
         IN  IF lib = "raises" \/ gap_penalty_raises(teaching_assignments, rooms, timeslots)
             THEN /\ outcome' = << [status |-> "TypeError"] >>
                  /\ UNCHANGED store
             ELSE IF optimal = {}
             THEN /\ outcome' = << [status |-> "INFEASIBLE"] >>
                  /\ run_status' = "FAILED"
                  /\ objective_score' = NoScore
                  /\ UNCHANGED db_entries
             ELSE \E f \in optimal :
                    IF \E a \in 1..Len(teaching_assignments) :
                            teaching_assignments[a].id > Len(teaching_assignments)
                    THEN /\ outcome' = << [status |-> "IndexError"] >>
                         /\ UNCHANGED store
                    ELSE /\ outcome' = << [status |-> "OPTIMAL", solution |-> f] >>
                         /\ db_entries' = db_entries \o
                                solver_entries(1, teaching_assignments, rooms, timeslots, f)
                         /\ run_status' = "SUCCESS"
                         /\ objective_score' =
                                solver_objective(teaching_assignments, rooms, timeslots, f)
    /\ pc' = "solved"
    /\ UNCHANGED <<master, runs_started, request_log, prioritize_senior, sched, cand>>

NextSolver == RunSolver

SpecSolver == InitSolver /\ [][NextSolver]_vars

-----------------------------------------------------------------------------
(* Properties.  The rules are restated here from the specification, in      *)
(* minutes since midnight, independently of the operators above.            *)

Minutes(hhmm) == 60 * hhmm[1] + hhmm[2]

\* two timeslots on the same day whose half-open intervals [start, end) intersect
SlotsOverlap(t1, t2) ==
    /\ t1.day_of_week = t2.day_of_week
    /\ Minutes(t1.start_time) < Minutes(t2.end_time)
    /\ Minutes(t2.start_time) < Minutes(t1.end_time)

\* a timeslot intersects the half-open window [lo, hi) of minutes
SlotMeets(t, lo, hi) == Minutes(t.start_time) < hi /\ lo < Minutes(t.end_time)

\* the lunch window selected by the start of the timeslot
MeetsOwnLunch(t) ==
    IF Minutes(t.start_time) < 630 THEN SlotMeets(t, 690, 780) ELSE SlotMeets(t, 870, 960)

\* the end-of-day ceiling of the employment class
Ceiling(teacher) ==
    IF teacher.status = "PERMANENT" /\ teacher.workload = "FULL_TIME" THEN 930
    ELSE IF teacher.status = "CONTRACT_OF_SERVICE" /\ teacher.workload = "FULL_TIME" THEN 1050
    ELSE 1200

TeacherDays(asgs, teacher_id) ==
    { asgs[i].timeslot.day_of_week : i \in { j \in 1..Len(asgs) : asgs[j].teacher.id = teacher_id } }

Rules(vs) == { vs[i].rule : i \in 1..Len(vs) }

Pairs(asgs) == { p \in (1..Len(asgs)) \X (1..Len(asgs)) : p[1] < p[2] }

\* the teacher of the teaching unit a validator call was made for
UnitTeacher(unit_id) ==
    (CHOOSE u \in { teaching_assignments[i] : i \in 1..Len(teaching_assignments) } :
        u.id = unit_id).teacher

\* the teacher owns a blocked compensation day on a weekday
HasCompOffWeekday(teacher_id) ==
    \E k \in 1..Len(day_blocks) :
        /\ day_blocks[k].teacher_id = teacher_id
        /\ day_blocks[k].source = "AUTO_SATURDAY_COMP_OFF"
        /\ day_blocks[k].is_blocked
        /\ day_blocks[k].day_of_week \in {"MON", "TUE", "WED", "THU", "FRI"}

\* the section of the teaching unit a validator call was made for
UnitSection(unit_id) ==
    (CHOOSE u \in { teaching_assignments[i] : i \in 1..Len(teaching_assignments) } :
        u.id = unit_id).section

\* the day of the week of a date; date 0 of the model is a Monday
DayOfDate(date) ==
    CASE date % 7 = 0 -> "MON" [] date % 7 = 1 -> "TUE" [] date % 7 = 2 -> "WED"
      [] date % 7 = 3 -> "THU" [] date % 7 = 4 -> "FRI" [] date % 7 = 5 -> "SAT"
      [] OTHER -> "SUN"

\* a maintenance block (within one date) covers part of the timeslot's day and hours
BlockCovers(b, t) ==
    /\ DayOfDate(b.start_datetime \div 1440) = t.day_of_week
    /\ SlotMeets(t, b.start_datetime % 1440, b.end_datetime - 1440 * (b.start_datetime \div 1440))

\* the run has returned from generate_schedule after its loop
RunFinished == pc = "idle" /\ result.message \in { "hard constraint violations",
                                                   "Schedule successfully generated" }

\* the committed assignments break none of the hard rules of the specification
CommittedClean ==
    /\ \A p \in Pairs(assignments) :
         LET a == assignments[p[1]]
             b == assignments[p[2]]
         IN  (a.teacher.id = b.teacher.id \/ a.section.id = b.section.id \/ a.room.id = b.room.id)
                => ~SlotsOverlap(a.timeslot, b.timeslot)
    /\ \A i \in 1..Len(assignments) :
         LET a == assignments[i]
         IN  /\ a.course.course_type.name # "STANDARD"
                  => a.room.room_type.name = a.course.course_type.name
             /\ Minutes(a.timeslot.end_time) <= Ceiling(a.teacher)
             /\ ~MeetsOwnLunch(a.timeslot)
             /\ Cardinality(TeacherDays(assignments, a.teacher.id)) <= 5
             /\ a.timeslot.day_of_week = "SAT" =>
                  /\ \E k \in 1..Len(day_blocks) :
                        /\ day_blocks[k].teacher_id = a.teacher.id
                        /\ day_blocks[k].source = "AUTO_SATURDAY_COMP_OFF"
                        /\ day_blocks[k].is_blocked
                  /\ a.section.is_first_year => a.timeslot.is_cwats_slot
             /\ \A k \in 1..Len(maintenance_blocks) :
                  maintenance_blocks[k].room_id # a.room.id
             /\ \A k \in 1..Len(db_entries) :
                  db_entries[k].room_id = a.room.id /\ db_entries[k].timeslot_id = a.timeslot.id
                      => \E j \in 1..Len(assignments) :
                            db_entries[k] = ScheduleEntry(1, assignments[j])

\* C1: at every point of a greedy run no two committed assignments of the run that
\* use the same room overlap in time on the same day
C1_NoRoomOverlap ==
    \A p \in Pairs(assignments) :
        assignments[p[1]].room.id = assignments[p[2]].room.id
            => ~SlotsOverlap(assignments[p[1]].timeslot, assignments[p[2]].timeslot)

\* C2: at every point of a greedy run no two committed assignments that share a
\* section overlap in time on the same day
C2_NoSectionOverlap ==
    \A p \in Pairs(assignments) :
        assignments[p[1]].section.id = assignments[p[2]].section.id
            => ~SlotsOverlap(assignments[p[1]].timeslot, assignments[p[2]].timeslot)

\* C3: at every point of a greedy run no two committed assignments of the same
\* teacher have overlapping half-open intervals on the same day
C3_NoTeacherOverlap ==
    \A p \in Pairs(assignments) :
        assignments[p[1]].teacher.id = assignments[p[2]].teacher.id
            => ~SlotsOverlap(assignments[p[1]].timeslot, assignments[p[2]].timeslot)

\* C3 witness: a teacher holds two back-to-back slots of one day, after a candidate
\* that overlapped the teacher's earlier slot was turned down for it
C3_Witness ==
    /\ \E p \in Pairs(assignments) :
         /\ assignments[p[1]].teacher.id = assignments[p[2]].teacher.id
         /\ assignments[p[1]].timeslot.day_of_week = assignments[p[2]].timeslot.day_of_week
         /\ assignments[p[1]].timeslot.end_time = assignments[p[2]].timeslot.start_time
    /\ \E k \in 1..Len(validated) :
         ~validated[k].is_valid /\ "H8-teacher" \in Rules(validated[k].violations)

\* C4 (state part): no teacher has committed assignments on more than five days
C4_AtMostFiveDays ==
    \A i \in 1..Len(assignments) :
        Cardinality(TeacherDays(assignments, assignments[i].teacher.id)) <= 5

\* C4 (step part): every candidate of a unit that would give the teacher a sixth
\* distinct day is returned infeasible with the H4 violation
C4_SixthDayRejected ==
    (pc = "assigning" /\ idx <= Len(sorted_assignments)) =>
        \A k \in (Len(validated) + 1)..Len(validated') :
            Cardinality(TeacherDays(assignments, sorted_assignments[idx].teacher.id)
                        \cup { validated'[k].timeslot.day_of_week }) > 5
            => /\ ~validated'[k].is_valid
               /\ "H4" \in Rules(validated'[k].violations)

\* C4: a teacher's committed days never exceed five, a candidate on a sixth day
\* being rejected by H4
C4_MaxTeachingDays == [](C4_AtMostFiveDays) /\ [][C4_SixthDayRejected]_vars

\* C4 witness: a teacher teaches on five days and a candidate of that teacher on
\* the remaining day was rejected with H4
C4_Witness ==
    \E i \in 1..Len(assignments) :
        /\ Cardinality(TeacherDays(assignments, assignments[i].teacher.id)) = 5
        /\ \E k \in 1..Len(validated) :
             /\ validated[k].timeslot.day_of_week
                    \notin TeacherDays(assignments, assignments[i].teacher.id)
             /\ "H4" \in Rules(validated[k].violations)
             /\ ~validated[k].is_valid

\* C5: whenever a greedy run reports Success, every teaching unit of the term is in
\* exactly one committed assignment
C5_SuccessPlacesEveryUnitOnce ==
    (schedule_run = "SUCCESS" /\ result.success) =>
        \A u \in 1..Len(teaching_assignments) :
            Cardinality({ i \in 1..Len(assignments) :
                            assignments[i].unit = teaching_assignments[u].id }) = 1

\* C5 witness: a run of two units has reported Success
C5_Witness ==
    /\ schedule_run = "SUCCESS"
    /\ result.success
    /\ Len(teaching_assignments) = 2
    /\ Len(assignments) = 2

\* C6: a run that placed every unit, none of the committed assignments breaking a
\* hard rule, ends with status Success, whatever candidates were rejected on the way
C6_AllPlacedIsSuccess ==
    (RunFinished /\ Len(assignments) = Len(teaching_assignments) /\ CommittedClean)
        => schedule_run = "SUCCESS"

\* C7: a run with an unplaceable unit and no committed assignment breaking a hard
\* rule ends with a status that is neither Success nor Fail
C7_UnplaceableIsPartialFail ==
    (RunFinished /\ failed_assignments # <<>> /\ CommittedClean)
        => schedule_run \notin { "SUCCESS", "FAILED" }

\* C8: the validator reports H1 exactly when the course is not Standard and the
\* kind of the room differs from the kind of the course
C8_RoomKindRule ==
    outcome # <<>> =>
        ("H1" \in Rules(outcome[1].violations)
            <=> /\ cand.course.course_type.name # "STANDARD"
                /\ cand.room.room_type.name # cand.course.course_type.name)

\* C9: no committed assignment ends later than the ceiling of its teacher's
\* employment class: 15:30, 17:30, and 20:00 for every other teacher
C9_EndsWithinCeiling ==
    \A i \in 1..Len(assignments) :
        Minutes(assignments[i].timeslot.end_time) <= Ceiling(assignments[i].teacher)

\* C10: no committed timeslot overlaps the lunch window selected by its own start,
\* and a candidate is given the H3 violation exactly when its timeslot does
C10_LunchWindowKept ==
    /\ \A i \in 1..Len(assignments) : ~MeetsOwnLunch(assignments[i].timeslot)
    /\ \A k \in 1..Len(validated) :
         MeetsOwnLunch(validated[k].timeslot)
            <=> "H3" \in Rules(validated[k].violations)

\* C10 witness: a slot that ends exactly when its lunch window starts is committed
\* after a slot that runs into its lunch window was rejected with H3
C10_Witness ==
    /\ \E i \in 1..Len(assignments) :
         /\ Minutes(assignments[i].timeslot.start_time) < 630
         /\ Minutes(assignments[i].timeslot.end_time) = 690
    /\ \E k \in 1..Len(validated) :
         /\ MeetsOwnLunch(validated[k].timeslot)
         /\ ~validated[k].is_valid
         /\ "H3" \in Rules(validated[k].violations)

\* C11: a candidate whose timeslot starts between 11:00 and 12:30 and overlaps
\* 11:30-13:00 is returned infeasible with the H3 lunch violation, for any teacher
C11_MiddayStartIsLunchConflict ==
    (/\ outcome # <<>>
     /\ Minutes(cand.timeslot.start_time) >= 660
     /\ Minutes(cand.timeslot.start_time) <= 750
     /\ SlotMeets(cand.timeslot, 690, 780))
        => /\ "H3" \in Rules(outcome[1].violations)
           /\ ~outcome[1].is_valid

C13_CompOffInstalledByDriver ==
    \A k \in 1..Len(validated) :
        ~validated[k].is_valid => Rules(validated[k].violations) # {"H5"}

\* C14: no committed assignment places a teacher on a day for which the teacher
\* has a day block with is_blocked = true, whatever the source of the block
C14_BlockedDaysStayVacant ==
    \A i \in 1..Len(assignments) :
        \A k \in 1..Len(day_blocks) :
            (day_blocks[k].teacher_id = assignments[i].teacher.id /\ day_blocks[k].is_blocked)
                => day_blocks[k].day_of_week # assignments[i].timeslot.day_of_week

\* C15: every committed assignment of a first-year section on Saturday uses a
\* CWATS timeslot; a Saturday candidate on a slot that is not a CWATS slot is
\* rejected with H6 for a first-year section and gets no H6 for any other section
C15_FirstYearSaturdayIsCwats ==
    /\ \A i \in 1..Len(assignments) :
         (assignments[i].section.is_first_year /\ assignments[i].timeslot.day_of_week = "SAT")
            => assignments[i].timeslot.is_cwats_slot
    /\ \A k \in 1..Len(validated) :
         (validated[k].timeslot.day_of_week = "SAT" /\ ~validated[k].timeslot.is_cwats_slot)
            => IF UnitSection(validated[k].unit).is_first_year
               THEN ~validated[k].is_valid /\ "H6" \in Rules(validated[k].violations)
               ELSE "H6" \notin Rules(validated[k].violations)

\* C15 witness: a first-year candidate on a Saturday slot that is not a CWATS slot
\* was rejected with H6, and a section of a later year holds such a slot
C15_Witness ==
    /\ \E k \in 1..Len(validated) :
         /\ validated[k].timeslot.day_of_week = "SAT"
         /\ ~validated[k].timeslot.is_cwats_slot
         /\ UnitSection(validated[k].unit).is_first_year
         /\ ~validated[k].is_valid
         /\ "H6" \in Rules(validated[k].violations)
    /\ \E i \in 1..Len(assignments) :
         /\ assignments[i].timeslot.day_of_week = "SAT"
         /\ ~assignments[i].timeslot.is_cwats_slot
         /\ ~assignments[i].section.is_first_year

\* C16: no committed assignment's timeslot overlaps a maintenance block of its
\* room, and a candidate whose room has a maintenance block over the timeslot's
\* day and hours is rejected with H7, on whatever date the run is executed
C16_NoMaintenanceOverlap ==
    /\ \A i \in 1..Len(assignments) :
         \A k \in 1..Len(maintenance_blocks) :
            maintenance_blocks[k].room_id = assignments[i].room.id
                => ~BlockCovers(maintenance_blocks[k], assignments[i].timeslot)
    /\ \A j \in 1..Len(validated) :
         (\E k \in 1..Len(maintenance_blocks) :
            /\ maintenance_blocks[k].room_id = validated[j].room.id
            /\ BlockCovers(maintenance_blocks[k], validated[j].timeslot))
            => /\ ~validated[j].is_valid
               /\ "H7" \in Rules(validated[j].violations)

\* the rules each of the eight hard checks reports for the candidate on its own
FailingHardRules ==
    LET existing_schedule == build_existing_schedule_dict(assignments)
    IN  Rules(check_room_type_matching(cand.course, cand.room))
        \cup Rules(check_time_limit(cand.teacher, cand.timeslot))
        \cup Rules(check_teacher_lunch_break(cand.timeslot))
        \cup Rules(check_max_teaching_days(cand.teacher, cand.timeslot, existing_schedule))
        \cup Rules(check_saturday_compensation(cand.teacher, cand.timeslot, existing_schedule))
        \cup Rules(check_first_year_cwats_vacancy(cand.section, cand.timeslot))
        \cup Rules(check_room_maintenance_blocks(cand.room, cand.timeslot))
        \cup Rules(check_no_overlap(cand.teacher, cand.section, cand.room, cand.timeslot,
                                    existing_schedule))

\* the rules the specification makes the candidate fail, among H3, H5 and H6
FailingByRule ==
    (IF MeetsOwnLunch(cand.timeslot) THEN {"H3"} ELSE {})
    \cup (IF cand.timeslot.day_of_week = "SAT" /\ ~HasCompOffWeekday(cand.teacher.id)
          THEN {"H5"} ELSE {})
    \cup (IF /\ cand.timeslot.day_of_week = "SAT"
             /\ cand.section.is_first_year
             /\ ~cand.timeslot.is_cwats_slot
          THEN {"H6"} ELSE {})

\* C17: the validator returns every failing hard rule, not only the first; the
\* candidate is feasible exactly when the returned list holds no Hard violation;
\* the list never holds both a Hard and a Soft violation
C17_AllHardRulesCollected ==
    outcome # <<>> =>
        /\ FailingHardRules \subseteq Rules(outcome[1].violations)
        /\ FailingByRule \subseteq Rules(outcome[1].violations)
        /\ outcome[1].is_valid <=> HardOf(outcome[1].violations) = <<>>
        /\ ~(HardOf(outcome[1].violations) # <<>> /\ SoftOf(outcome[1].violations) # <<>>)
        /\ outcome[1].is_valid =>
              Rules(outcome[1].violations) =
                 Rules(check_soft_constraints(cand.teacher, cand.course, cand.section,
                                              cand.timeslot, cand.room))

\* C17 witness: a candidate that fails three hard rules and would break a soft
\* one is returned infeasible with the three hard violations and no soft one
C17_Witness ==
    /\ outcome # <<>>
    /\ ~outcome[1].is_valid
    /\ {"H1", "H5", "H6"} \subseteq Rules(outcome[1].violations)
    /\ SoftOf(outcome[1].violations) = <<>>
    /\ check_soft_constraints(cand.teacher, cand.course, cand.section,
                              cand.timeslot, cand.room) # <<>>

\* the violations of a list, as a set
ViolationSet(vs) == { vs[i] : i \in 1..Len(vs) }

\* C18: two calls of the validator with the same candidate, master data, partial
\* schedule (in any order of its entries), stored entries and blocks return the
\* same feasible flag and the same set of violations
C18_ValidatorDeterministic ==
    Len(outcome) = 2 =>
        /\ outcome[1].is_valid = outcome[2].is_valid
        /\ ViolationSet(outcome[1].violations) = ViolationSet(outcome[2].violations)

\* C19: two consecutive runs of the greedy driver for the same term over unchanged
\* master data and with the same prioritize_senior yield identical lists of
\* assignments: the entries saved by the second run repeat those saved by the first
C19_RerunRepeatsAssignments ==
    (/\ pc = "idle"
     /\ runs_started = 2
     /\ request_log[1] = request_log[2])
        => db_entries = save_schedule_entries(1, assignments) \o
                        save_schedule_entries(1, assignments)

\* the employment rank as the claim states it: every Visiting teacher has rank 4
ClaimedRank(teacher) ==
    IF teacher.status = "PERMANENT" /\ teacher.workload = "FULL_TIME" THEN 0
    ELSE IF teacher.status = "CONTRACT_OF_SERVICE" /\ teacher.workload = "FULL_TIME" THEN 1
    ELSE IF teacher.status = "PERMANENT" /\ teacher.workload = "PART_TIME" THEN 2
    ELSE IF teacher.status = "CONTRACT_OF_SERVICE" /\ teacher.workload = "PART_TIME" THEN 3
    ELSE 4

\* the employment rank with a Visiting teacher ranked as a Part-Time teacher of the
\* same status
StatusRank(teacher) ==
    IF teacher.status = "PERMANENT"
    THEN (IF teacher.workload = "FULL_TIME" THEN 0 ELSE 2)
    ELSE IF teacher.status = "CONTRACT_OF_SERVICE"
    THEN (IF teacher.workload = "FULL_TIME" THEN 1 ELSE 3)
    ELSE 4

\* the flag of the request the current run was started for
RunFlag == request_log[runs_started]

SeniorKey(u) == IF RunFlag /\ u.teacher.is_senior_old THEN 0 ELSE 1

FirstYearKey(u) == IF u.section.is_first_year THEN 0 ELSE 1

\* the position of a unit in the sorted list of the run
PositionOf(unit_id) ==
    CHOOSE i \in 1..Len(sorted_assignments) : sorted_assignments[i].id = unit_id

\* the validator calls of the run follow the sorted list
ProcessedInSortedOrder ==
    \A k, l \in 1..Len(validated) :
        k < l => PositionOf(validated[k].unit) <= PositionOf(validated[l].unit)

\* C20 as stated: units are processed in ascending order of (senior key, employment
\* rank, first-year key), every Visiting teacher having employment rank 4
C20_ProcessedByClaimedRank ==
    pc = "assigning" =>
        /\ ProcessedInSortedOrder
        /\ \A i, j \in 1..Len(sorted_assignments) :
             i < j => ~TupleLess(<< SeniorKey(sorted_assignments[j]),
                                   ClaimedRank(sorted_assignments[j].teacher),
                                   FirstYearKey(sorted_assignments[j]) >>,
                                << SeniorKey(sorted_assignments[i]),
                                   ClaimedRank(sorted_assignments[i].teacher),
                                   FirstYearKey(sorted_assignments[i]) >>)

\* C20 amended: units are processed in ascending order of (senior key, employment
\* rank, first-year key), the rank being 0 for Permanent-FullTime, 1 for
\* ContractOfService-FullTime, 2 for a Permanent teacher of any other workload and
\* 3 for a ContractOfService teacher of any other workload
C20_ProcessedByStatusRank ==
    pc = "assigning" =>
        /\ ProcessedInSortedOrder
        /\ \A i, j \in 1..Len(sorted_assignments) :
             i < j => ~TupleLess(<< SeniorKey(sorted_assignments[j]),
                                   StatusRank(sorted_assignments[j].teacher),
                                   FirstYearKey(sorted_assignments[j]) >>,
                                << SeniorKey(sorted_assignments[i]),
                                   StatusRank(sorted_assignments[i].teacher),
                                   FirstYearKey(sorted_assignments[i]) >>)

\* C20 witness: with prioritize_senior off, every unit of the term has been
\* processed, a Permanent Visiting teacher's unit before the unit of a
\* ContractOfService Part-Time teacher that was loaded ahead of it
C20_Witness ==
    /\ pc = "assigning"
    /\ ~RunFlag
    /\ idx > Len(sorted_assignments)
    /\ validated # <<>>
    /\ \E i, j \in 1..Len(sorted_assignments) :
         /\ i < j
         /\ sorted_assignments[i].teacher.workload = "VISITING"
         /\ sorted_assignments[i].teacher.status = "PERMANENT"
         /\ sorted_assignments[j].teacher.workload = "PART_TIME"
         /\ sorted_assignments[j].teacher.status = "CONTRACT_OF_SERVICE"
         /\ sorted_assignments[j].id < sorted_assignments[i].id

\* the priority key of a unit in the current run
UnitKey(u) == << SeniorKey(u), StatusRank(u.teacher), FirstYearKey(u) >>

\* C21: teaching units with equal priority key are processed in ascending
\* teaching-unit id, whatever the order in which the units were loaded
C21_TiesProcessedById ==
    pc = "assigning" =>
        \A i, j \in 1..Len(sorted_assignments) :
            (i < j /\ UnitKey(sorted_assignments[i]) = UnitKey(sorted_assignments[j]))
                => sorted_assignments[i].id < sorted_assignments[j].id

\* the days in the order of the week
DayIndex(day) ==
    CASE day = "MON" -> 1 [] day = "TUE" -> 2 [] day = "WED" -> 3
      [] day = "THU" -> 4 [] day = "FRI" -> 5 [] day = "SAT" -> 6

\* the room codes of the model in the order of their strings
CodeIndex(room_code) ==
    CASE room_code = "A101" -> 1 [] room_code = "A103" -> 2 [] room_code = "L201" -> 3

\* (t1, r1) comes before (t2, r2) in the enumeration by (day, start time), then room code
EnumeratedBefore(t1, r1, t2, r2) ==
    \/ DayIndex(t1.day_of_week) < DayIndex(t2.day_of_week)
    \/ /\ t1.day_of_week = t2.day_of_week
       /\ Minutes(t1.start_time) < Minutes(t2.start_time)
    \/ /\ t1.day_of_week = t2.day_of_week
       /\ Minutes(t1.start_time) = Minutes(t2.start_time)
       /\ CodeIndex(r1.room_code) < CodeIndex(r2.room_code)

\* a step that commits an assignment commits the first feasible pair of the
\* enumeration by (day, start time), then room code
CommitsFirstOfSortedEnumeration ==
    (pc = "assigning" /\ Len(assignments') = Len(assignments) + 1) =>
        LET unit == sorted_assignments[idx]
            a == assignments'[Len(assignments')]
        IN  \A i \in 1..Len(timeslots), j \in 1..Len(rooms) :
                EnumeratedBefore(timeslots[i], rooms[j], a.timeslot, a.room)
                    => ~validate_timeslot_for_assignment(
                            unit.teacher, unit.course, unit.section, timeslots[i], rooms[j],
                            build_existing_schedule_dict(assignments)).is_valid

\* C22: for each unit the driver commits the first feasible (timeslot, room) pair of
\* the enumeration in which timeslots are sorted by (day Mon<...<Sat, start time)
\* and rooms by code, whatever the order in which timeslots and rooms were loaded
C22_FirstFeasibleInSortedOrder == [][CommitsFirstOfSortedEnumeration]_vars

\* the number of soft violations the scheduler holds
SoftCount == Cardinality({ i \in 1..Len(violations) : violations[i].constraint_type = "SOFT" })

\* C23 as stated: the score equals 1000 - 10 * (soft violations) + 5 * (committed
\* assignments) for every count of assignments and soft violations
C23_ScoreIsLinear ==
    (pc = "report" /\ outcome # <<>>) =>
        outcome[1].objective_score = 1000 - 10 * SoftCount + 5 * Len(assignments)

\* C23 amended: the score equals 1000 - 10 * (soft violations) + 5 * (committed
\* assignments) when that sum is positive, and 0 otherwise
C23_ScoreIsLinearOrZero ==
    (pc = "report" /\ outcome # <<>>) =>
        outcome[1].objective_score =
            IF 1000 - 10 * SoftCount + 5 * Len(assignments) > 0
            THEN 1000 - 10 * SoftCount + 5 * Len(assignments)
            ELSE 0

\* C23 witness: a report whose sum of terms is negative carries the score 0
C23_Witness ==
    /\ pc = "report"
    /\ outcome # <<>>
    /\ 1000 - 10 * SoftCount + 5 * Len(assignments) < 0
    /\ outcome[1].objective_score = 0

\* C24: with three units of two teachers, two Standard rooms and three weekday
\* timeslots the first run reports Success with three assignments, no Hard
\* violation and the score 1000 + 15 - 10 * (number of soft violations)
C24_HappyPathSucceeds ==
    (RunFinished /\ runs_started = 1) =>
        /\ schedule_run = "SUCCESS"
        /\ result.success
        /\ Len(assignments) = 3
        /\ \A i \in 1..Len(violations) : violations[i].constraint_type # "HARD"
        /\ objective_score = 1000 + 15 - 10 * SoftCount

\* C25: soft rules never reject. A validator call is feasible exactly when it
\* reports no Hard violation; a feasible call for a senior teacher in a room
\* outside {A103, A104, A203} carries an S1 violation of kind Soft and severity
\* Medium; a call for a non-senior teacher never carries S1; and the driver
\* commits the pair of every feasible call
C25_SoftRulesNeverReject ==
    \A k \in 1..Len(validated) :
        LET c == validated[k]
            t == UnitTeacher(c.unit)
        IN  /\ c.is_valid <=> (\A i \in 1..Len(c.violations) :
                                  c.violations[i].constraint_type # "HARD")
            /\ (c.is_valid /\ t.is_senior_old /\ c.room.room_code \notin {"A103", "A104", "A203"})
                    => \E i \in 1..Len(c.violations) :
                          c.violations[i] = ConstraintViolation("SOFT", "MEDIUM", "S1")
            /\ ~t.is_senior_old => "S1" \notin Rules(c.violations)
            /\ c.is_valid
                    => \E j \in 1..Len(assignments) :
                          /\ assignments[j].unit = c.unit
                          /\ assignments[j].timeslot = c.timeslot
                          /\ assignments[j].room = c.room

\* a senior teacher's unit committed to room A101 by a feasible call that carries S1
C25_Witness ==
    \E k \in 1..Len(validated), j \in 1..Len(assignments) :
        /\ validated[k].is_valid
        /\ UnitTeacher(validated[k].unit).is_senior_old
        /\ validated[k].room.room_code = "A101"
        /\ "S1" \in Rules(validated[k].violations)
        /\ assignments[j].unit = validated[k].unit
        /\ assignments[j].room = validated[k].room
        /\ assignments[j].timeslot = validated[k].timeslot

\* C26: a run over a term without teaching units, without timeslots or without
\* active rooms ends with status FAILED and an explanatory message, and no
\* schedule entry is persisted
C26_MissingMasterDataFails ==
    (pc = "idle" /\ result.message \in { "No teaching assignments found",
                                          "No timeslots configured",
                                          "No rooms available" })
        => /\ schedule_run = "FAILED"
           /\ run_status = "FAILED"
           /\ ~result.success
           /\ db_entries = <<>>

\* C27: when a validator call raises in the middle of the first run, the run
\* ends with status FAILED and one message, and no schedule entry is persisted
C27_ExceptionFailsWithoutEntries ==
    (pc = "idle" /\ result.message = "Schedule generation failed" /\ runs_started = 1)
        => /\ schedule_run = "FAILED"
           /\ run_status = "FAILED"
           /\ ~result.success
           /\ db_entries = <<>>

\* the validator raised on the malformed timeslot after a unit had been placed
C27_Witness ==
    /\ pc = "idle"
    /\ result.message = "Schedule generation failed"
    /\ runs_started = 1
    /\ Len(assignments) >= 1
    /\ idx = 2
    /\ db_entries = <<>>

\* the ids of the units that hold an assignment
AssignedUnits(asgs) == { asgs[i].unit : i \in 1..Len(asgs) }

\* the ids of the units recorded as unplaceable
FailedUnits(failed) == { failed[i] : i \in 1..Len(failed) }

EntrySlot(e) == CHOOSE t \in { timeslots[i] : i \in 1..Len(timeslots) } : t.id = e.timeslot_id

\* the term has a senior teacher's unit and no active room of the senior rooms
NoSeniorRoomForSenior ==
    /\ \E a \in 1..Len(teaching_assignments) : teaching_assignments[a].teacher.is_senior_old
    /\ \A r \in 1..Len(rooms) : rooms[r].room_code \notin {"A103", "A104", "A203"}

\* some placement of every unit keeps the hard rules the solver encodes, the
\* senior rooms being no hard rule
FeasibleUnderHardRules ==
    \E f \in solver_variables(teaching_assignments, rooms, timeslots) :
        /\ no_teacher_overlap(teaching_assignments, timeslots, f)
        /\ no_section_overlap(teaching_assignments, timeslots, f)
        /\ no_room_overlap(teaching_assignments, rooms, timeslots, f)
        /\ room_type_matching(teaching_assignments, rooms, f)
        /\ end_of_day_limits(teaching_assignments, timeslots, f)
        /\ cwats_first_year(teaching_assignments, timeslots, f)

\* C29: the solver treats the senior rooms as a preference: a term without a
\* Saturday timeslot that is feasible under the hard rules and has a senior
\* teacher's unit but no senior room is solved with status SUCCESS, the unit
\* being placed in another room
C29_SeniorRoomsSoftInSolver ==
    (/\ pc = "solved"
     /\ outcome[1].status # "TypeError"
     /\ NoSeniorRoomForSenior
     /\ FeasibleUnderHardRules)
        => /\ run_status = "SUCCESS"
           /\ Len(db_entries) = Len(teaching_assignments)

C31_TakenRoomRejected ==
    pc = "assigning" =>
        \A k \in 1..Len(validated) :
            (\E e \in 1..Len(db_entries) :
                /\ db_entries[e].room_id = validated[k].room.id
                /\ db_entries[e].timeslot_id = validated[k].timeslot.id)
                => /\ ~validated[k].is_valid
                   /\ "H8-room" \in Rules(validated[k].violations)

\* C32: a validator call changes nothing. In every step of a run that makes
\* validator calls the master data, the teacher day blocks and the stored
\* entries stay as they were, the assignments made before stay in place, and
\* the schedule grows by exactly the commit of the feasible call: a rejected
\* call adds nothing
C32_ValidatorChangesNothing ==
    [][ Len(validated') > Len(validated) =>
            LET new == SubSeq(validated', Len(validated) + 1, Len(validated'))
                ok == { k \in 1..Len(new) : new[k].is_valid }
                n == Len(assignments)
            IN  /\ master' = master
                /\ db_entries' = db_entries
                /\ SubSeq(assignments', 1, n) = assignments
                /\ Len(assignments') = n + Cardinality(ok)
                /\ \A k \in ok :
                      /\ assignments'[n + 1].unit = new[k].unit
                      /\ assignments'[n + 1].timeslot = new[k].timeslot
                      /\ assignments'[n + 1].room = new[k].room
      ]_vars

\* a run in which rejected calls and a feasible call were made and the only
\* assignment is the commit of the feasible one
C32_Witness ==
    /\ pc = "assigning"
    /\ Len(assignments) = 1
    /\ \E k \in 1..Len(validated) : ~validated[k].is_valid
    /\ \E k \in 1..Len(validated) :
         /\ validated[k].is_valid
         /\ assignments[1].timeslot = validated[k].timeslot
         /\ assignments[1].room = validated[k].room

\* C33: in every committed greedy schedule a teacher who has a class that
\* starts before 10:30 on a day has no class on that day that overlaps
\* 11:30-13:00
C33_LunchKeptPerTeacherAndDay ==
    \A i, j \in 1..Len(assignments) :
        (/\ assignments[i].teacher.id = assignments[j].teacher.id
         /\ assignments[i].timeslot.day_of_week = assignments[j].timeslot.day_of_week
         /\ Minutes(assignments[i].timeslot.start_time) < 630)
            => ~SlotMeets(assignments[j].timeslot, 690, 780)

\* the number of violations of a rule in a list
RuleCount(vs, rule) == Cardinality({ i \in 1..Len(vs) : vs[i].rule = rule })

\* the committed assignments that break the senior-room preference
BreaksS1 ==
    { i \in 1..Len(assignments) :
        /\ assignments[i].teacher.is_senior_old
        /\ assignments[i].room.room_code \notin {"A103", "A104", "A203"} }

\* the committed assignments that put a 2-unit course into a room of more than 100 seats
BreaksS2 ==
    { i \in 1..Len(assignments) :
        /\ assignments[i].course.units = 20
        /\ assignments[i].room.capacity > 100 }

\* C34: the Soft violations of a greedy run are exactly those of its committed
\* assignments, each once: one S1 per committed assignment of a senior teacher
\* outside the senior rooms, one S2 per committed 2-unit course in a large
\* room, and nothing from a rejected candidate
C34_SoftViolationsOfCommitted ==
    /\ RuleCount(violations, "S1") = Cardinality(BreaksS1)
    /\ RuleCount(violations, "S2") = Cardinality(BreaksS2)
    /\ SoftCount = Cardinality(BreaksS1) + Cardinality(BreaksS2)
    /\ \A k \in 1..Len(validated) :
         ~validated[k].is_valid =>
            \A i \in 1..Len(validated[k].violations) :
                validated[k].violations[i].constraint_type # "SOFT"

\* a senior teacher's unit was rejected in a room outside the senior rooms and
\* another senior teacher's unit is committed outside them: one S1 is counted
C34_Witness ==
    /\ \E k \in 1..Len(validated) :
         /\ ~validated[k].is_valid
         /\ UnitTeacher(validated[k].unit).is_senior_old
         /\ validated[k].room.room_code = "A101"
    /\ Cardinality(BreaksS1) = 1
    /\ RuleCount(violations, "S1") = 1

\* C35: once the background task of a run that the endpoint set to RUNNING
\* has finished, the stored status of the run is SUCCESS or FAILED
C35_FinishedRunNotRunning ==
    (pc = "idle" /\ runs_started >= 1) => run_status \in {"SUCCESS", "FAILED"}


\* the stored entries of the run that carry the teacher, section and course of unit ta
EntriesOfUnit(ta) ==
    { e \in 1..Len(db_entries) :
        /\ db_entries[e].schedule_run_id = 1
        /\ db_entries[e].teacher_id = ta.teacher.id
        /\ db_entries[e].section_id = ta.section.id
        /\ db_entries[e].course_id = ta.course.id }

\* the teaching units of the term with the teacher, section and course of unit ta
UnitsLike(ta) ==
    { u \in 1..Len(teaching_assignments) :
        /\ teaching_assignments[u].teacher.id = ta.teacher.id
        /\ teaching_assignments[u].section.id = ta.section.id
        /\ teaching_assignments[u].course.id = ta.course.id }

\* C36: after any sequence of generate invocations on a run, the stored entries
\* of the run hold at most one entry per teaching unit
C36_OneEntryPerUnit ==
    \A u \in 1..Len(teaching_assignments) :
        Cardinality(EntriesOfUnit(teaching_assignments[u]))
            <= Cardinality(UnitsLike(teaching_assignments[u]))


\* C37: every entry the solver saves for a chosen decision variable carries the
\* teacher, section and course of the teaching unit of that variable, whatever
\* the ids of the units are
C37_SolverEntryCarriesItsUnit ==
    (pc = "solved" /\ outcome[1].status = "OPTIMAL") =>
        \A a \in 1..Len(teaching_assignments) :
            /\ db_entries[a].teacher_id = teaching_assignments[a].teacher.id
            /\ db_entries[a].section_id = teaching_assignments[a].section.id
            /\ db_entries[a].course_id = teaching_assignments[a].course.id

=============================================================================
